---- MODULE Spec2Model ----
(***************************************************************************)
(* Model of the modular preset export tool (a Maya panel script):         *)
(*   - the four scene operations acting on the host's current selection,  *)
(*   - the settings store (one JSON file),                                *)
(*   - the panel and its single-instance policy.                          *)
(* Object names and paths are sequences of one-character strings.  The    *)
(* scene is kept in world space: bounding box, rotate pivot, scale pivot, *)
(* and the translate / scale channel values of every object.              *)
(***************************************************************************)
EXTENDS Integers, Sequences, FiniteSets, TLC

VARIABLES scene, selection, pluginLoaded, files, log, exc, lastOp, prevOp,
          opCount, pc, selected_objs, original_selection, idx,
          exportArgs, configFile, lastSaved, panels

vars == <<scene, selection, pluginLoaded, files, log, exc, lastOp, prevOp,
          opCount, pc, selected_objs, original_selection, idx,
          exportArgs, configFile, lastSaved, panels>>

panelVars == <<configFile, lastSaved, panels>>

(* ------------------------------ bounds -------------------------------- *)
MaxOps == 2
MaxFail == 1
MaxPanels == 2
MaxNameLen == 3

(* --------------------------- scene contents --------------------------- *)
Axes == <<"X", "Y", "Z">>
AxisSet == {"X", "Y", "Z"}
UseMaxDicts == [AxisSet -> BOOLEAN]

NsGrpMesh == <<"n","s",":","g","r","p","|","m","e","s","h">>
ShapeName == <<"a","|","b">>
CamName == <<"c","a","m">>
Objects == {NsGrpMesh, ShapeName, CamName}

Zero3 == <<0, 0, 0>>

InitScene ==
    [o \in Objects |->
        IF o = NsGrpMesh THEN
            [box |-> <<1, 2, 3, 4, 6, 8>>, rp |-> <<2, 3, 5>>, sp |-> <<2, 3, 5>>,
             t |-> <<2, 3, 5>>, s |-> 1, isMesh |-> FALSE, meshShapes |-> 1]
        ELSE IF o = ShapeName THEN
            [box |-> <<-3, -1, 0, -1, 1, 2>>, rp |-> <<0, 0, 0>>, sp |-> <<0, 0, 0>>,
             t |-> <<-2, 0, 1>>, s |-> 1, isMesh |-> TRUE, meshShapes |-> 0]
        ELSE
            [box |-> <<5, -2, -4, 6, -1, -3>>, rp |-> <<5, -1, -4>>, sp |-> <<5, -1, -4>>,
             t |-> <<5, -1, -4>>, s |-> 1, isMesh |-> FALSE, meshShapes |-> 0]]

Selections ==
    { <<>>, <<CamName, NsGrpMesh>>, <<NsGrpMesh, ShapeName>>, <<ShapeName, CamName>> }

Range(seq) == {seq[k] : k \in 1..Len(seq)}

(* the selected objects whose host calls throw during one batch operation *)
FailSets(sel) == {F \in SUBSET Range(sel) : Cardinality(F) <= MaxFail}

(* cmds.ls(selection=True) *)
Ls(sel) == sel

(* --------------------------- vector helpers --------------------------- *)
Neg3(v) == <<0 - v[1], 0 - v[2], 0 - v[3]>>
Add3(u, v) == <<u[1] + v[1], u[2] + v[2], u[3] + v[3]>>
ShiftBox(b, v) == <<b[1] + v[1], b[2] + v[2], b[3] + v[3],
                    b[4] + v[1], b[5] + v[2], b[6] + v[3]>>

(* console lines of the operation in progress *)
Msg(kind, line) == [obj |-> <<>>, kind |-> kind, line |-> line, file |-> <<>>]
ObjMsg(o, kind, line, file) == [obj |-> o, kind |-> kind, line |-> line, file |-> file]

(* index of the next loop iteration after an iteration's exception was   *)
(* caught by "except Exception"                                          *)
AfterExceptAbort(k, n) == n + 1
AfterExcept(k, n) == k + 1

(* ------------------ set_pivot_to_bounding_box_corner ------------------ *)
MinIdx(axis) == CASE axis = "X" -> 0 [] axis = "Y" -> 1 [] axis = "Z" -> 2
MaxIdx(axis) == MinIdx(axis) + 3

NewPivotSwapped(bounding_box, use_max_dict) ==
    [a \in 1..3 |-> IF use_max_dict[Axes[a]]
                    THEN bounding_box[MinIdx(Axes[a]) + 1]
                    ELSE bounding_box[MaxIdx(Axes[a]) + 1]]
(* indices are 0-based in the source, 1-based here *)
NewPivot(bounding_box, use_max_dict) ==
    [a \in 1..3 |-> IF use_max_dict[Axes[a]]
                    THEN bounding_box[MaxIdx(Axes[a]) + 1]
                    ELSE bounding_box[MinIdx(Axes[a]) + 1]]

(* cmds.xform(obj, rp=p, sp=p, ws=True) *)
XformSetPivots(rec, p) == [rec EXCEPT !.rp = p, !.sp = p]

RECURSIVE PivotLoop(_, _, _, _, _)
PivotLoop(objs, k, st, use_max_dict, F) ==
    IF k > Len(objs) THEN st
    ELSE LET obj == objs[k] IN
         IF obj \in F
         THEN PivotLoop(objs, AfterExcept(k, Len(objs)),
                        [st EXCEPT !.log = Append(@, ObjMsg(obj, "fail", 28, <<>>))],
                        use_max_dict, F)
         ELSE LET new_pivot == NewPivot(st.scene[obj].box, use_max_dict) IN
              PivotLoop(objs, k + 1,
                        [scene |-> [st.scene EXCEPT ![obj] = XformSetPivots(@, new_pivot)],
                         log |-> Append(st.log, ObjMsg(obj, "ok", 26, <<>>))],
                        use_max_dict, F)

SetPivotResult(sc, sel, use_max_dict, F) ==
    LET objs == Ls(sel) IN
    IF objs = <<>> THEN [scene |-> sc, log |-> <<Msg("warning", 15)>>]
    ELSE PivotLoop(objs, 1, [scene |-> sc, log |-> <<>>], use_max_dict, F)

(* ---------------------- move_object_to_world_origin ------------------- *)
MoveVectorSignSlip(current_pivot) == <<0 - current_pivot[1], 0 - current_pivot[2], current_pivot[3]>>
MoveVector(current_pivot) == <<0 - current_pivot[1], 0 - current_pivot[2], 0 - current_pivot[3]>>

(* cmds.xform(obj, t=v, ws=True, r=True): relative world-space move *)
XformTranslateRel(rec, v) ==
    [rec EXCEPT !.t = Add3(@, v), !.rp = Add3(@, v), !.sp = Add3(@, v),
                !.box = ShiftBox(@, v)]

RECURSIVE MoveLoop(_, _, _, _)
MoveLoop(objs, k, st, F) ==
    IF k > Len(objs) THEN st
    ELSE LET obj == objs[k] IN
         IF obj \in F
         THEN MoveLoop(objs, AfterExcept(k, Len(objs)),
                       [st EXCEPT !.log = Append(@, ObjMsg(obj, "fail", 43, <<>>))], F)
         ELSE LET move_vector == MoveVector(st.scene[obj].rp) IN
              MoveLoop(objs, k + 1,
                       [scene |-> [st.scene EXCEPT ![obj] = XformTranslateRel(@, move_vector)],
                        log |-> Append(st.log, ObjMsg(obj, "ok", 41, <<>>))], F)

MoveResult(sc, sel, F) ==
    LET objs == Ls(sel) IN
    IF objs = <<>> THEN [scene |-> sc, log |-> <<Msg("warning", 34)>>]
    ELSE MoveLoop(objs, 1, [scene |-> sc, log |-> <<>>], F)

(* ------------------------ freeze_transformations ---------------------- *)
(* not objectType(obj, isType="mesh") and not listRelatives(obj, shapes, mesh) *)
SkipNonMeshNever(rec) == FALSE
SkipNonMesh(rec) == (~rec.isMesh) /\ (rec.meshShapes = 0)

(* cmds.makeIdentity(obj, apply=True, translate, rotate, scale) *)
MakeIdentity(rec) == [rec EXCEPT !.t = Zero3, !.s = 1]

RECURSIVE FreezeLoop(_, _, _, _)
FreezeLoop(objs, k, st, F) ==
    IF k > Len(objs) THEN st
    ELSE LET obj == objs[k] IN
         IF SkipNonMesh(st.scene[obj])
         THEN FreezeLoop(objs, k + 1, st, F)
         ELSE IF obj \in F
         THEN FreezeLoop(objs, AfterExcept(k, Len(objs)),
                         [st EXCEPT !.log = Append(@, ObjMsg(obj, "fail", 58, <<>>))], F)
         ELSE FreezeLoop(objs, k + 1,
                         [scene |-> [st.scene EXCEPT ![obj] = MakeIdentity(@)],
                          log |-> Append(st.log, ObjMsg(obj, "ok", 56, <<>>))], F)

FreezeResult(sc, sel, F) ==
    LET objs == Ls(sel) IN
    IF objs = <<>> THEN [scene |-> sc, log |-> <<Msg("warning", 49)>>]
    ELSE FreezeLoop(objs, 1, [scene |-> sc, log |-> <<>>], F)

(* --------------------------- export_fbx_to_path ----------------------- *)
ScaleFactors == {1, 2}
RootDir == <<"/">>
TmpDir == <<"/", "t">>
Dirs == {RootDir, TmpDir}
ExportDirs == {TmpDir}
FbxExt == <<".", "f", "b", "x">>

(* str.replace(old, new) for one-character old and new *)
RECURSIVE Replace(_, _, _)
Replace(str, old, new) ==
    IF str = <<>> THEN <<>>
    ELSE <<IF Head(str) = old THEN new ELSE Head(str)>> \o Replace(Tail(str), old, new)

SafeObjNameColonOnly(obj) == Replace(obj, ":", "_")
SafeObjName(obj) == Replace(Replace(obj, ":", "_"), "|", "_")

(* os.path.join(a, b), POSIX *)
PathJoin(a, b) ==
    IF b # <<>> /\ Head(b) = "/" THEN b
    ELSE IF a = <<>> \/ a[Len(a)] = "/" THEN a \o b
    ELSE a \o <<"/">> \o b

FbxFile(export_path, obj) == PathJoin(export_path, SafeObjName(obj) \o FbxExt)

(* cmds.select(items, r=True): replace the selection *)
Select(cur, items) == items

(* cmds.scale(f, f, f, obj, relative=True): scales about the scale pivot *)
ScaleRel(rec, f) ==
    [rec EXCEPT !.s = @ * f,
                !.box = [c \in 1..6 |->
                            rec.sp[((c - 1) % 3) + 1]
                              + f * (rec.box[c] - rec.sp[((c - 1) % 3) + 1])]]

(* source lines of the host calls inside the try body that may throw; 0 = none *)
BodyLines == {87, 89, 91, 94, 96, 99}

BodyLineReached(args, f) ==
    \/ f \in {0, 87, 94, 96, 99}
    \/ f = 89 /\ args.scale # 1
    \/ f = 91 /\ args.freeze

(* the try body of one loop iteration, lines 84-102 *)
ExportBodyResult(st, obj, args, f, unitAttr) ==
    IF SkipNonMesh(st.scene[obj]) THEN st
    ELSE
      LET sel1 == IF f = 87 THEN st.selection ELSE Select(st.selection, <<obj>>)
          rec0 == st.scene[obj]
          rec1 == IF args.scale # 1 /\ f \notin {87, 89} THEN ScaleRel(rec0, args.scale) ELSE rec0
          rec2 == IF args.freeze /\ f \notin {87, 89, 91} THEN MakeIdentity(rec1) ELSE rec1
          fbx == FbxFile(args.path, obj)
          log1 == IF unitAttr /\ f \in {0, 99}
                  THEN Append(st.log, ObjMsg(obj, "unitwarn", 98, <<>>)) ELSE st.log
      IN [scene |-> [st.scene EXCEPT ![obj] = rec2],
          selection |-> sel1,
          files |-> IF f = 0 THEN st.files \cup {fbx} ELSE st.files,
          log |-> IF f = 0 THEN Append(log1, ObjMsg(obj, "ok", 100, fbx))
                  ELSE Append(log1, ObjMsg(obj, "fail", f, <<>>))]

(* the finally clause, lines 103-104 *)
FinallySkipped(cur, orig) == cur
FinallySelect(cur, orig) == Select(cur, orig)

BodyFailed(lg, obj) ==
    /\ lg # <<>>
    /\ lg[Len(lg)].obj = obj
    /\ lg[Len(lg)].kind = "fail"

(* ------------------------------ operations ---------------------------- *)
(* lastOp: the operation that ran last; prevOp: the operation that ran    *)
(* before the last recenter (NoOp when the last operation is another one) *)
NoDict == [a \in AxisSet |-> FALSE]
OpRec(nm, outcome, use_max, F) ==
    [name |-> nm, outcome |-> outcome, use_max |-> use_max, failed |-> F]
NoOp == OpRec("none", "none", NoDict, {})

Idle == pc = "idle"

StartOp ==
    /\ Idle
    /\ opCount < MaxOps
    /\ opCount' = opCount + 1

SetPivot(use_max_dict, F) ==
    /\ StartOp
    /\ LET r == SetPivotResult(scene, selection, use_max_dict, F) IN
         /\ scene' = r.scene
         /\ log' = r.log
    /\ exc' = 0
    /\ lastOp' = OpRec("pivot", "returned", use_max_dict, F)
    /\ prevOp' = NoOp
    /\ UNCHANGED <<selection, pluginLoaded, files, pc, selected_objs,
                   original_selection, idx, exportArgs>>
    /\ UNCHANGED panelVars

MoveToOrigin(F) ==
    /\ StartOp
    /\ LET r == MoveResult(scene, selection, F) IN
         /\ scene' = r.scene
         /\ log' = r.log
    /\ exc' = 0
    /\ lastOp' = OpRec("recenter", "returned", NoDict, F)
    /\ prevOp' = lastOp
    /\ UNCHANGED <<selection, pluginLoaded, files, pc, selected_objs,
                   original_selection, idx, exportArgs>>
    /\ UNCHANGED panelVars

Freeze(F) ==
    /\ StartOp
    /\ LET r == FreezeResult(scene, selection, F) IN
         /\ scene' = r.scene
         /\ log' = r.log
    /\ exc' = 0
    /\ lastOp' = OpRec("freeze", "returned", NoDict, F)
    /\ prevOp' = NoOp
    /\ UNCHANGED <<selection, pluginLoaded, files, pc, selected_objs,
                   original_selection, idx, exportArgs>>
    /\ UNCHANGED panelVars

NoArgs == [freeze |-> TRUE, scale |-> 1, path |-> <<>>]

(* lines 60-82: precondition checks up to the loop entry *)
ExportStart(freeze_before_export, scale_factor, loadOk, export_path, writable) ==
    /\ StartOp
    /\ LET objs == Ls(selection)
           abort(kind, line) ==
               /\ log' = <<Msg(kind, line)>>
               /\ exc' = IF kind = "error" THEN line ELSE 0
               /\ lastOp' = OpRec("export", IF kind = "error" THEN "raised" ELSE "returned",
                                  NoDict, {})
               /\ UNCHANGED <<pc, selected_objs, original_selection, idx, exportArgs>>
       IN
       IF objs = <<>> THEN abort("warning", 64) /\ UNCHANGED pluginLoaded
       ELSE IF ~pluginLoaded /\ ~loadOk THEN abort("error", 71) /\ UNCHANGED pluginLoaded
       ELSE /\ pluginLoaded' = TRUE
            /\ IF export_path = <<>> THEN abort("warning", 76)
               ELSE IF ~writable THEN abort("warning", 79)
               ELSE /\ log' = <<>>
                    /\ exc' = 0
                    /\ selected_objs' = objs
                    /\ original_selection' = Ls(selection)
                    /\ idx' = 1
                    /\ exportArgs' = [freeze |-> freeze_before_export,
                                      scale |-> scale_factor, path |-> export_path]
                    /\ pc' = "body"
                    /\ lastOp' = OpRec("export", "running", NoDict, {})
    /\ prevOp' = NoOp
    /\ UNCHANGED <<scene, selection, files>>
    /\ UNCHANGED panelVars

ExportBody(f, unitAttr) ==
    /\ pc = "body"
    /\ LET obj == selected_objs[idx] IN
         /\ IF SkipNonMesh(scene[obj]) THEN f = 0 /\ ~unitAttr
            ELSE BodyLineReached(exportArgs, f) /\ (unitAttr => f \in {0, 99})
         /\ LET r == ExportBodyResult([scene |-> scene, selection |-> selection,
                                       files |-> files, log |-> log],
                                      obj, exportArgs, f, unitAttr) IN
              /\ scene' = r.scene
              /\ selection' = r.selection
              /\ files' = r.files
              /\ log' = r.log
    /\ pc' = "finally"
    /\ UNCHANGED <<pluginLoaded, exc, lastOp, prevOp, opCount,
                   selected_objs, original_selection, idx, exportArgs>>
    /\ UNCHANGED panelVars

ExportFinally(restoreOk) ==
    /\ pc = "finally"
    /\ LET obj == selected_objs[idx]
           n == Len(selected_objs)
           next == IF BodyFailed(log, obj) THEN AfterExcept(idx, n) ELSE idx + 1
       IN
       IF ~restoreOk
       THEN /\ exc' = 104
            /\ pc' = "idle"
            /\ lastOp' = OpRec("export", "raised", NoDict, {})
            /\ UNCHANGED <<selection, idx>>
       ELSE /\ selection' = FinallySelect(selection, original_selection)
            /\ idx' = next
            /\ exc' = 0
            /\ IF next > n
               THEN pc' = "idle" /\ lastOp' = OpRec("export", "returned", NoDict, {})
               ELSE pc' = "body" /\ UNCHANGED lastOp
    /\ UNCHANGED <<scene, pluginLoaded, files, log, prevOp, opCount,
                   selected_objs, original_selection, exportArgs>>
    /\ UNCHANGED panelVars

NoFile == [exists |-> FALSE, parses |-> FALSE, isDict |-> FALSE, items |-> <<>>]

InitScenePart ==
    /\ files = {}
    /\ log = <<>>
    /\ exc = 0
    /\ lastOp = NoOp
    /\ prevOp = NoOp
    /\ opCount = 0
    /\ pc = "idle"
    /\ selected_objs = <<>>
    /\ original_selection = <<>>
    /\ idx = 0
    /\ exportArgs = NoArgs

Init ==
    /\ InitScenePart
    /\ scene = InitScene
    /\ selection \in Selections
    /\ pluginLoaded = FALSE
    /\ configFile = NoFile
    /\ lastSaved = <<>>
    /\ panels = <<>>

Next ==
    \/ \E d \in UseMaxDicts, F \in FailSets(selection) : SetPivot(d, F)
    \/ \E F \in FailSets(selection) : MoveToOrigin(F)
    \/ \E F \in FailSets(selection) : Freeze(F)
    \/ \E fr \in BOOLEAN, sf \in ScaleFactors, ok \in BOOLEAN,
          p \in ExportDirs \cup {<<>>}, w \in BOOLEAN : ExportStart(fr, sf, ok, p, w)
    \/ \E f \in BodyLines \cup {0}, u \in BOOLEAN : ExportBody(f, u)
    \/ \E ok \in BOOLEAN : ExportFinally(ok)

Spec == Init /\ [][Next]_vars

(* ------------- the panel's export button, over object names ----------- *)
NameAlphabet == {"a", ":", "|", "_"}
Names == UNION {[1..n -> NameAlphabet] : n \in 1..MaxNameLen} \cup {NsGrpMesh}

MeshRec == [box |-> <<0, 0, 0, 1, 1, 1>>, rp |-> Zero3, sp |-> Zero3,
            t |-> <<1, 0, 0>>, s |-> 1, isMesh |-> FALSE, meshShapes |-> 1]

InitNames ==
    /\ InitScenePart
    /\ \E n \in Names : scene = [o \in {n} |-> MeshRec] /\ selection = <<n>>
    /\ pluginLoaded = TRUE
    /\ configFile = NoFile
    /\ lastSaved = <<>>
    /\ panels = <<>>

(* PivotAdjustUI.export_fbx_to_path: export_fbx_to_path(True, 1.0) *)
ExportClicked(loadOk, export_path, writable) ==
    ExportStart(TRUE, 1, loadOk, export_path, writable)

NextNames ==
    \/ \E ok \in BOOLEAN, p \in Dirs \cup {<<>>}, w \in BOOLEAN : ExportClicked(ok, p, w)
    \/ \E f \in BodyLines \cup {0}, u \in BOOLEAN : ExportBody(f, u)
    \/ \E ok \in BOOLEAN : ExportFinally(ok)

SpecNames == InitNames /\ [][NextNames]_vars

(* ---------------------------- settings store -------------------------- *)
JsonLits == {"true", "false"}

(* json.dump of a bool, json.load of a literal *)
JsonDumpBool(b) == IF b THEN "true" ELSE "false"
JsonLoadLit(lit) == lit = "true"

DictFile(items) == [exists |-> TRUE, parses |-> TRUE, isDict |-> TRUE, items |-> items]
Unparseable == [exists |-> TRUE, parses |-> FALSE, isDict |-> FALSE, items |-> <<>>]
NonDict == [exists |-> TRUE, parses |-> TRUE, isDict |-> FALSE, items |-> <<>>]

(* settings files found at start: JSON objects of at most two entries,    *)
(* "W" standing for any key that is not an axis                           *)
Pairs == (AxisSet \X JsonLits) \cup {<<"W", "true">>}
PairsOfTwo == {<<"X", "true">>, <<"Y", "false">>, <<"Z", "true">>, <<"W", "true">>}
ItemSeqs ==
    {<<>>} \cup {<<p>> : p \in Pairs}
           \cup {<<pq[1], pq[2]>> : pq \in {x \in PairsOfTwo \X PairsOfTwo : x[1][1] # x[2][1]}}
InitFiles == {NoFile, Unparseable, NonDict} \cup {DictFile(q) : q \in ItemSeqs}

(* json.dump(use_max_dict, f): the dict is built in the order X, Y, Z *)
JsonDump(use_max_dict) ==
    [a \in 1..3 |-> <<Axes[a], JsonDumpBool(use_max_dict[Axes[a]])>>]

(* save_config: "ok", "openfail" (open throws), "writefail" (dump throws  *)
(* after open(..., 'w') truncated the file)                               *)
SaveOutcomes == {"ok", "openfail", "writefail"}
SaveConfig(file, use_max_dict, so) ==
    CASE so = "ok" -> DictFile(JsonDump(use_max_dict))
      [] so = "openfail" -> file
      [] so = "writefail" -> Unparseable

(* QComboBox with items Min, Max: index 0 is current *)
DefaultCombos == [a \in AxisSet |-> "Min"]

SetCurrentTextInverted(is_max) == IF is_max THEN "Min" ELSE "Max"
SetCurrentText(is_max) == IF is_max THEN "Max" ELSE "Min"

(* for axis, is_max in config.items(): KeyError ends the loop *)
RECURSIVE LoadItems(_, _, _)
LoadItems(combos, items, k) ==
    IF k > Len(items) THEN [combos |-> combos, failed |-> FALSE]
    ELSE IF items[k][1] \notin AxisSet THEN [combos |-> combos, failed |-> TRUE]
    ELSE LoadItems([combos EXCEPT ![items[k][1]] = SetCurrentText(JsonLoadLit(items[k][2]))],
                   items, k + 1)

LoadConfig(combos, file) ==
    IF ~file.exists THEN [combos |-> combos, failed |-> FALSE]
    ELSE IF ~file.parses \/ ~file.isDict THEN [combos |-> combos, failed |-> TRUE]
    ELSE LoadItems(combos, file.items, 1)

(* ---------------------------------- panel ----------------------------- *)
(* PivotAdjustUI.__init__: create_ui then load_config *)
NewPanel(file) == [visible |-> TRUE, combos |-> LoadConfig(DefaultCombos, file).combos]

(* for widget in allWidgets(): if isinstance(widget, PivotAdjustUI): widget.close() *)
CloseNone(ps) == ps
CloseAllPanels(ps) == [k \in 1..Len(ps) |-> [ps[k] EXCEPT !.visible = FALSE]]

PanelFrame ==
    UNCHANGED <<selection, pluginLoaded, files, prevOp, opCount, pc, selected_objs,
                original_selection, idx, exportArgs>>

ShowUi(found) ==
    /\ Idle
    /\ Len(panels) < MaxPanels
    /\ IF ~found
       THEN /\ log' = <<Msg("error", 215)>>
            /\ exc' = 215
            /\ lastOp' = OpRec("show_ui", "raised", NoDict, {})
            /\ UNCHANGED panels
       ELSE /\ panels' = Append(CloseAllPanels(panels), NewPanel(configFile))
            /\ log' = IF LoadConfig(DefaultCombos, configFile).failed
                      THEN <<Msg("loadfail", 202)>> ELSE <<>>
            /\ exc' = 0
            /\ lastOp' = OpRec("show_ui", "returned", NoDict, {})
    /\ UNCHANGED <<scene, configFile, lastSaved>>
    /\ PanelFrame

(* the user picks an entry of one selector of the open panel *)
SetCombo(k, axis, text) ==
    /\ Idle
    /\ k \in 1..Len(panels)
    /\ panels[k].visible
    /\ panels[k].combos[axis] # text
    /\ panels' = [panels EXCEPT ![k].combos[axis] = text]
    /\ lastOp' = OpRec("set_combo", "returned", NoDict, {})
    /\ log' = <<>>
    /\ exc' = 0
    /\ UNCHANGED <<scene, configFile, lastSaved>>
    /\ PanelFrame

(* cancel button: self.close *)
ClosePanel(k) ==
    /\ Idle
    /\ k \in 1..Len(panels)
    /\ panels[k].visible
    /\ panels' = [panels EXCEPT ![k].visible = FALSE]
    /\ lastOp' = OpRec("close", "returned", NoDict, {})
    /\ log' = <<>>
    /\ exc' = 0
    /\ UNCHANGED <<scene, configFile, lastSaved>>
    /\ PanelFrame

(* PivotAdjustUI.apply_pivot_to_corner *)
ApplyPivotToCorner(k, F, so) ==
    /\ Idle
    /\ k \in 1..Len(panels)
    /\ panels[k].visible
    /\ LET use_max_dict == [a \in AxisSet |-> panels[k].combos[a] = "Max"]
           r == SetPivotResult(scene, selection, use_max_dict, F)
       IN /\ scene' = r.scene
          /\ log' = IF so = "ok" THEN r.log ELSE Append(r.log, Msg("savefail", 191))
          /\ configFile' = SaveConfig(configFile, use_max_dict, so)
          /\ lastSaved' = CASE so = "ok" -> <<use_max_dict>>
                            [] so = "openfail" -> lastSaved
                            [] so = "writefail" -> <<>>
          /\ lastOp' = OpRec("apply_pivot", "returned", use_max_dict, F)
    /\ exc' = 0
    /\ UNCHANGED panels
    /\ PanelFrame

PanelSelections == {<<>>, <<NsGrpMesh>>}

InitPanel ==
    /\ InitScenePart
    /\ scene = InitScene
    /\ selection \in PanelSelections
    /\ pluginLoaded = FALSE
    /\ configFile \in InitFiles
    /\ lastSaved = <<>>
    /\ panels = <<>>

NextPanel ==
    \/ \E found \in BOOLEAN : ShowUi(found)
    \/ \E k \in 1..MaxPanels, a \in AxisSet, v \in {"Min", "Max"} : SetCombo(k, a, v)
    \/ \E k \in 1..MaxPanels : ClosePanel(k)
    \/ \E k \in 1..MaxPanels, F \in FailSets(selection), so \in SaveOutcomes :
          ApplyPivotToCorner(k, F, so)

SpecPanel == InitPanel /\ [][NextPanel]_vars

(* ------------------------------ properties ---------------------------- *)
LogKinds(lg, o) == {lg[k].kind : k \in {j \in 1..Len(lg) : lg[j].obj = o}}
HasEntry(lg, o, kind) == \E k \in 1..Len(lg) : lg[k].obj = o /\ lg[k].kind = kind
EntriesOf(lg, o) == SelectSeq(lg, LAMBDA e : e.obj = o)

(* the export loop has been entered and has run to its end *)
LoopFinished ==
    /\ pc = "idle"
    /\ lastOp.name = "export"
    /\ lastOp.outcome = "returned"
    /\ \A k \in 1..Len(log) : log[k].kind # "warning"

(* the export loop stands between two iterations *)
BetweenIterations == pc = "body" /\ idx > 1

(* C1: after every completed iteration of the export loop (skipping ones  *)
(* included) and when the loop has finished, the host's selection is the  *)
(* selection read before the export, same objects in the same order,      *)
(* whichever objects failed and wherever in the try body they failed.     *)
C1_SelectionRestored ==
    (LoopFinished \/ BetweenIterations) => selection = selected_objs

C1_Witness ==
    /\ LoopFinished
    /\ Len(selected_objs) = 2
    /\ selection = selected_objs
    /\ \E k \in 1..Len(log) : log[k].kind = "fail" /\ log[k].line \in {89, 91, 94, 96, 99}

(* objects of sel that come after x *)
After(sel, x) ==
    {sel[j] : j \in {m \in 1..Len(sel) : \E i \in 1..(m - 1) : sel[i] = x}}

BatchStep(nm) == opCount' = opCount + 1 /\ lastOp'.name = nm

NonMesh(rec) == (~rec.isMesh) /\ (rec.meshShapes = 0)

SameAsWithout(actual, counterfactual, o) ==
    /\ actual.scene[o] = counterfactual.scene[o]
    /\ EntriesOf(actual.log, o) = EntriesOf(counterfactual.log, o)

C2_Step ==
    /\ BatchStep("pivot") =>
         \A x \in lastOp'.failed : \A o \in After(selection, x) :
            SameAsWithout([scene |-> scene', log |-> log'],
                          SetPivotResult(scene, selection, lastOp'.use_max,
                                         lastOp'.failed \ {x}), o)
    /\ BatchStep("recenter") =>
         \A x \in lastOp'.failed : \A o \in After(selection, x) :
            SameAsWithout([scene |-> scene', log |-> log'],
                          MoveResult(scene, selection, lastOp'.failed \ {x}), o)
    /\ BatchStep("freeze") =>
         \A x \in lastOp'.failed : \A o \in After(selection, x) :
            SameAsWithout([scene |-> scene', log |-> log'],
                          FreezeResult(scene, selection, lastOp'.failed \ {x}), o)
    /\ (pc = "finally" /\ pc' = "idle" /\ lastOp'.outcome = "returned") =>
         \A x \in Range(selected_objs) : HasEntry(log', x, "fail") =>
            \A o \in After(selected_objs, x) :
               \/ NonMesh(scene'[o])
               \/ HasEntry(log', o, "fail")
               \/ \E k \in 1..Len(log') :
                     /\ log'[k].obj = o
                     /\ log'[k].kind = "ok"
                     /\ log'[k].file \in files'

(* C2: in each batch operation a failure while processing one selected    *)
(* object does not abort the batch: every later object of the selection   *)
(* ends up processed as in the run where that failure does not occur      *)
(* (pivot, recenter, freeze), and in a finished export every later        *)
(* mesh-bearing object has been exported or has logged its own failure.   *)
C2_BatchContinues == [][C2_Step]_vars

C2_Witness ==
    /\ LoopFinished
    /\ Len(selected_objs) = 2
    /\ HasEntry(log, selected_objs[1], "fail")
    /\ \E k \in 1..Len(log) :
          /\ log[k].obj = selected_objs[2]
          /\ log[k].kind = "ok"
          /\ log[k].file \in files

(* C3: after set_pivot_to_bounding_box_corner, every selected object that *)
(* did not fail has its rotate pivot and its scale pivot at the point     *)
(* whose coordinate on each axis is the box maximum when the axis's       *)
(* boolean is true and the box minimum when it is false.                  *)
C3_PivotAtCorner ==
    lastOp.name = "pivot" =>
        \A o \in Range(selection) \ lastOp.failed : \A a \in 1..3 :
            LET c == IF lastOp.use_max[Axes[a]]
                     THEN scene[o].box[a + 3] ELSE scene[o].box[a]
            IN scene[o].rp[a] = c /\ scene[o].sp[a] = c

MaxMinMax == [a \in AxisSet |-> a # "Y"]

C3_Witness ==
    /\ lastOp.name = "pivot"
    /\ lastOp.use_max = MaxMinMax
    /\ NsGrpMesh \in Range(selection) \ lastOp.failed
    /\ scene[NsGrpMesh].box = <<1, 2, 3, 4, 6, 8>>
    /\ scene[NsGrpMesh].rp = <<4, 2, 8>>
    /\ scene[NsGrpMesh].sp = <<4, 2, 8>>

C4_Step ==
    BatchStep("recenter") =>
        \A o \in Range(selection) \ lastOp'.failed :
            /\ scene'[o].rp = Zero3
            /\ scene[o].rp = Zero3 =>
                  /\ scene'[o].t = scene[o].t
                  /\ scene'[o].box = scene[o].box

(* C4: move_object_to_world_origin leaves the world-space pivot of every  *)
(* selected object that did not fail at the origin, and applied to an     *)
(* object whose pivot is already at the origin (a second application) it  *)
(* leaves the pivot at the origin and does not move the object.           *)
C4_RecenterIdempotent == [][C4_Step]_vars

C4_Witness ==
    /\ lastOp.name = "recenter"
    /\ prevOp.name = "recenter"
    /\ \E o \in Range(selection) \ (lastOp.failed \cup prevOp.failed) :
          /\ InitScene[o].rp # Zero3
          /\ scene[o].rp = Zero3
          /\ scene[o].t = Add3(InitScene[o].t, Neg3(InitScene[o].rp))

(* a panel has just been constructed and shown by show_ui *)
JustOpened == lastOp.name = "show_ui" /\ lastOp.outcome = "returned"
NewestCombos == panels[Len(panels)].combos

(* C5: after a successful save_config of an axis-corner choice, a newly   *)
(* opened panel shows Max on exactly the axes saved as true and Min on    *)
(* the others.                                                            *)
C5_SettingsRoundTrip ==
    (JustOpened /\ lastSaved # <<>>) =>
        \A a \in AxisSet : NewestCombos[a] = (IF lastSaved[1][a] THEN "Max" ELSE "Min")

C5_Witness ==
    /\ JustOpened
    /\ lastSaved = <<MaxMinMax>>
    /\ NewestCombos = [a \in AxisSet |-> IF a = "Y" THEN "Min" ELSE "Max"]

C6_Step ==
    /\ BatchStep("freeze") =>
         \A o \in Range(selection) : NonMesh(scene[o]) =>
            /\ scene'[o] = scene[o]
            /\ LogKinds(log', o) = {}
    /\ (pc = "body" /\ pc' = "finally" /\ NonMesh(scene[selected_objs[idx]])) =>
         /\ scene' = scene
         /\ files' = files
         /\ log' = log

(* C6: an object that is no mesh and owns no mesh shape is skipped by     *)
(* freeze_transformations and by the export loop: its transform stays as  *)
(* it was, no file is written for it and nothing is logged about it.      *)
C6_NonMeshSkipped == [][C6_Step]_vars

C6_Witness ==
    /\ lastOp.name = "freeze"
    /\ lastOp.failed = {}
    /\ selection = <<ShapeName, CamName>>
    /\ scene[ShapeName].t = Zero3
    /\ scene[CamName].t = InitScene[CamName].t
    /\ scene[CamName].t # Zero3
    /\ LogKinds(log, CamName) = {}

ExpectedName(obj) ==
    [i \in 1..Len(obj) |-> IF obj[i] \in {":", "|"} THEN "_" ELSE obj[i]]
InDirectory(d) == IF d[Len(d)] = "/" THEN d ELSE d \o <<"/">>

(* C7: every file the export writes is <directory>/<sanitized-name>.fbx,  *)
(* the sanitized name being the object's name with each ':' and each '|'  *)
(* replaced by '_' and every other character kept.                        *)
C7_SanitizedFileName ==
    \A k \in 1..Len(log) : (log[k].kind = "ok" /\ log[k].line = 100) =>
        /\ log[k].file = InDirectory(exportArgs.path) \o ExpectedName(log[k].obj) \o FbxExt
        /\ log[k].file \in files

C7_Witness ==
    \E k \in 1..Len(log) :
        /\ log[k].kind = "ok"
        /\ log[k].obj = NsGrpMesh
        /\ log[k].file = <<"/","t","/","n","s","_","g","r","p","_","m","e","s","h",
                           ".","f","b","x">>
        /\ log[k].file \in files

MissingOrCorrupt(file) ==
    \/ ~file.exists
    \/ ~file.parses
    \/ file.isDict /\ \E k \in 1..Len(file.items) : file.items[k][1] \notin AxisSet

(* C8: when the settings file is missing or corrupt (unparseable, or a    *)
(* JSON object with a key that is no axis), a newly opened panel has all  *)
(* three selectors at Min.                                                *)
C8_DefaultsOnCorruptFile ==
    (JustOpened /\ MissingOrCorrupt(configFile)) =>
        \A a \in AxisSet : NewestCombos[a] = "Min"

(* C9: no operation ends with an exception propagating to its caller.     *)
C9_NoOperationRaises == exc = 0

Visible == {k \in 1..Len(panels) : panels[k].visible}

====
